---- MODULE Spec2Model ----
(***************************************************************************)
(* KeyCred tenant dashboard (frontend/src/App.jsx): the React component's  *)
(* state, its event handlers and the two asynchronous requests it issues,  *)
(* together with the receipt-to-score pipeline of the backend that answers *)
(* them.  The backend is not part of the sources at hand; its pipeline is  *)
(* modelled from the design document (sections 3, 4 and 6).                *)
(***************************************************************************)
EXTENDS Integers, Sequences, FiniteSets, TLC

-----------------------------------------------------------------------------
(* Bounds of the model *)

\* physical pages of an uploaded document
MaxPages == 1
\* requests of one kind the network may hold at once
MaxInFlight == 2
\* receipt ids the persistence layer assigns
MaxReceiptId == 1

-----------------------------------------------------------------------------
(* Program constants *)

\* ScoreRing's maxScore default; the clamp's upper end
MAX_SCORE == 1000
\* "Score must be >= 650 for certificate eligibility"
APPROVAL_THRESHOLD == 650
\* rating badge / ring colour thresholds
EXCELLENT_SCORE == 750
GOOD_SCORE == 600
\* the tenant id of both endpoints' URLs
TENANT_ID == 1
\* baseline score before rule application (design document 4.3)
BASELINE == 500

PDF == "application/pdf"
PLAIN == "text/plain"

-----------------------------------------------------------------------------
(* Documents and files *)

\* the avg monthly income a receipt with an income signal shows
MonthlyIncomes == {20000}
\* sums of the scorer's rule contributions
PointDeltas == {-600, 149, 150}

\* bytes that are no parseable PDF
CorruptDoc ==
    [pdf |-> FALSE, pages |-> 0, income_present |-> FALSE, avg_income |-> 0, points |-> 0]

\* a well-formed PDF with zero pages
ZeroPageDoc ==
    [pdf |-> TRUE, pages |-> 0, income_present |-> FALSE, avg_income |-> 0, points |-> 0]

ValidDocs ==
    {[pdf |-> TRUE, pages |-> p, income_present |-> FALSE, avg_income |-> 0, points |-> d] :
        p \in 1..MaxPages, d \in PointDeltas}
    \cup
    {[pdf |-> TRUE, pages |-> p, income_present |-> TRUE, avg_income |-> m, points |-> d] :
        p \in 1..MaxPages, m \in MonthlyIncomes, d \in PointDeltas}

Docs == {CorruptDoc, ZeroPageDoc} \cup ValidDocs

\* a File object: its declared media type (File.type) and its bytes
Files ==
    {[type |-> PDF, doc |-> d] : d \in Docs} \cup {[type |-> PLAIN, doc |-> CorruptDoc]}

NoFile == [null |-> TRUE]
NoResult == [null |-> TRUE]
NoError == "null"

-----------------------------------------------------------------------------
(* The receipt-to-score pipeline (backend) *)

Min(a, b) == IF a < b THEN a ELSE b
Max(a, b) == IF a > b THEN a ELSE b

\* 4.1 Document Extractor: the pages, or UnreadableDocument
Readable(doc) == doc.pdf /\ doc.pages > 0

\* 4.3 Rule-Based Scorer: clamp(baseline + sum of contributions, 0, 1000)
Score(doc) == Max(0, Min(MAX_SCORE, BASELINE + doc.points))

\* 4.4 Rent-Limit Calculator: proportional to income, scaled by the score
RentLimit(score, doc) ==
    IF doc.income_present THEN (doc.avg_income * score) \div MAX_SCORE ELSE 0

\* 4.5 Eligibility Gate
IsApproved(status, score) == status = "completed" /\ score >= APPROVAL_THRESHOLD

\* the assembler without the short-circuit: an unreadable document is still
\* scored, on no features
Pipeline_NoShortCircuit(doc, rid) ==
    LET s == Score(doc)
        status == IF Readable(doc) THEN "completed" ELSE "failed"
    IN [tenant_id |-> TENANT_ID, receipt_id |-> rid, keycred_score |-> s,
        max_rent_limit |-> RentLimit(s, doc), pages_parsed |-> doc.pages,
        is_approved |-> IsApproved(status, s), status |-> status]

\* 4.6 Result Assembler: the decision record of one upload; the tenant id and
\* the receipt id are the caller's and are echoed unchanged
Pipeline(doc, rid) ==
    IF ~Readable(doc)
    THEN [tenant_id |-> TENANT_ID, receipt_id |-> rid, keycred_score |-> 0,
          max_rent_limit |-> 0, pages_parsed |-> 0,
          is_approved |-> IsApproved("failed", 0), status |-> "failed"]
    ELSE LET s == Score(doc) IN
         [tenant_id |-> TENANT_ID, receipt_id |-> rid, keycred_score |-> s,
          max_rent_limit |-> RentLimit(s, doc), pages_parsed |-> doc.pages,
          is_approved |-> IsApproved("completed", s), status |-> "completed"]

\* the receipt ids the persistence layer may assign
ReceiptIds == 1..MaxReceiptId

\* POST /api/upload-receipt/{tenant_id}: a document whose declared media type
\* is not PDF is rejected before extraction; the server may also be failing
UploadStatuses(f) == {IF f.type = PDF THEN 200 ELSE 400, 500}

\* POST /api/certificate/{tenant_id}: a certificate is rendered only for an
\* approved decision record
CertStatuses(f) ==
    {IF f.type = PDF /\ Pipeline(f.doc, 1).is_approved THEN 200 ELSE 400, 500}

\* the "detail" field of an error body; "" when the body carries none
CertDetails == {"", "Score below approval threshold"}

\* messages of the exceptions fetch(), res.json() and res.blob() reject with
NetworkErrors == {"Failed to fetch"}
BodyErrors == {"Unexpected end of JSON input"}

-----------------------------------------------------------------------------
(* The App component *)

VARIABLES
    file,         \* useState(null): the selected File
    dragging,     \* useState(false)
    uploading,    \* useState(false)
    result,       \* useState(null): the decision record on display
    error,        \* useState(null): the message of the error banner
    certLoading,  \* useState(false)
    uploadReqs,   \* the upload requests not yet settled, in order of issue
    certReqs      \* the certificate requests not yet settled, in order of issue

vars == <<file, dragging, uploading, result, error, certLoading, uploadReqs, certReqs>>

ui == <<file, dragging, uploading, result, error, certLoading>>

\* a request: the file of its FormData and the await its handler is parked at
Request(f, stage) == [file |-> f, stage |-> stage]

Remove(seq, i) == SubSeq(seq, 1, i - 1) \o SubSeq(seq, i + 1, Len(seq))

Init ==
    /\ file = NoFile
    /\ dragging = FALSE
    /\ uploading = FALSE
    /\ result = NoResult
    /\ error = NoError
    /\ certLoading = FALSE
    /\ uploadReqs = <<>>
    /\ certReqs = <<>>

(* What the component renders *)

\* the upload button disabled only for want of a file
UploadDisabled_IgnoresUploading == file = NoFile

\* <button id="upload-btn" disabled={!file || uploading}>
UploadDisabled == file = NoFile \/ uploading

\* {uploading ? 'Processing...' : 'Analyze Receipt'}
UploadLabel == IF uploading THEN "Processing" ELSE "Analyze Receipt"

\* {result && <button onClick={resetState}>}
ResetShown == result # NoResult

\* {result && <div> ... score summary card}
ScoreCardShown == result # NoResult

\* the rating badge of the score summary card
RatingBadge(r) ==
    IF r.keycred_score >= EXCELLENT_SCORE THEN "Excellent Creditworthiness"
    ELSE IF r.keycred_score >= GOOD_SCORE THEN "Good Creditworthiness"
    ELSE "Needs Improvement"

\* the button offered for every displayed record
CertButtonShown_AnyResult == ScoreCardShown

\* the button gated on the badge's threshold instead of the record's flag
CertButtonShown_ByBadge == ScoreCardShown /\ result.keycred_score >= GOOD_SCORE

\* {result.is_approved && <button onClick={handleCertificate}>}
CertButtonShown == ScoreCardShown /\ result.is_approved

\* the download button never disabled
CertDisabled_Never == FALSE

\* <button onClick={handleCertificate} disabled={certLoading}>
CertDisabled == certLoading

\* {!result.is_approved && <div>Score must be >= 650 ...}
NoticeShown == ScoreCardShown /\ ~result.is_approved

\* {error && <div>...{error}</div>}
ErrorShown == error # NoError /\ error # ""

(* Drag and drop, file selection *)

OnDragOver ==
    /\ dragging' = TRUE
    /\ UNCHANGED <<file, uploading, result, error, certLoading, uploadReqs, certReqs>>

OnDragLeave ==
    /\ dragging' = FALSE
    /\ UNCHANGED <<file, uploading, result, error, certLoading, uploadReqs, certReqs>>

\* a drop accepted whatever its media type
DropAccepted_AnyType(dropped) == dropped # NoFile

\* dropped && dropped.type === 'application/pdf'
DropAccepted(dropped) == dropped # NoFile /\ dropped.type = PDF

OnDrop(dropped) ==
    /\ dragging' = FALSE
    /\ IF DropAccepted(dropped)
       THEN file' = dropped /\ error' = NoError
       ELSE file' = file /\ error' = "Please drop a valid PDF file."
    /\ UNCHANGED <<uploading, result, certLoading, uploadReqs, certReqs>>

\* if (chosen)
ChoiceAccepted(chosen) == chosen # NoFile

OnFileChange(chosen) ==
    /\ IF ChoiceAccepted(chosen)
       THEN file' = chosen /\ error' = NoError
       ELSE file' = file /\ error' = error
    /\ UNCHANGED <<dragging, uploading, result, certLoading, uploadReqs, certReqs>>

(* Upload *)

\* err.message || 'Upload failed. Is the backend running?'
UploadErrorText(message) ==
    IF message = "" THEN "Upload failed. Is the backend running?" ELSE message

\* `Server error: ${res.status}`
ServerErrorText(status) == "Server error: " \o ToString(status)

\* handleUpload without its setResult(null)
HandleUpload_KeepsResult ==
    IF file = NoFile
    THEN UNCHANGED vars
    ELSE /\ uploading' = TRUE
         /\ error' = NoError
         /\ uploadReqs' = Append(uploadReqs, Request(file, "fetch"))
         /\ UNCHANGED <<file, dragging, result, certLoading, certReqs>>

\* handleUpload up to its first await: the early return, the three setters
\* and the fetch of the FormData
HandleUpload ==
    IF file = NoFile
    THEN UNCHANGED vars
    ELSE /\ uploading' = TRUE
         /\ error' = NoError
         /\ result' = NoResult
         /\ uploadReqs' = Append(uploadReqs, Request(file, "fetch"))
         /\ UNCHANGED <<file, dragging, certLoading, certReqs>>

\* a click on the "Analyze Receipt" button
ClickUpload ==
    /\ ~UploadDisabled
    /\ Len(uploadReqs) < MaxInFlight
    /\ HandleUpload

\* the catch block without the finally block's setUploading(false)
UploadFails_NoFinally(i, message) ==
    /\ error' = UploadErrorText(message)
    /\ uploadReqs' = Remove(uploadReqs, i)
    /\ UNCHANGED <<file, dragging, uploading, result, certLoading, certReqs>>

\* catch (err) { setError(...) } finally { setUploading(false) }
UploadFails(i, message) ==
    /\ error' = UploadErrorText(message)
    /\ uploading' = FALSE
    /\ uploadReqs' = Remove(uploadReqs, i)
    /\ UNCHANGED <<file, dragging, result, certLoading, certReqs>>

\* await fetch(...) rejects: the backend is unreachable
UploadFetchRejects(i, message) ==
    /\ uploadReqs[i].stage = "fetch"
    /\ UploadFails(i, message)

\* await fetch(...) resolves: if (!res.ok) throw ...; else await res.json()
UploadFetchResolves(i, status) ==
    /\ uploadReqs[i].stage = "fetch"
    /\ IF status # 200
       THEN UploadFails(i, ServerErrorText(status))
       ELSE /\ uploadReqs' = [uploadReqs EXCEPT ![i].stage = "json"]
            /\ UNCHANGED <<ui, certReqs>>

\* await res.json() resolves: setResult(data), finally setUploading(false)
UploadJsonResolves(i, data) ==
    /\ uploadReqs[i].stage = "json"
    /\ result' = data
    /\ uploading' = FALSE
    /\ uploadReqs' = Remove(uploadReqs, i)
    /\ UNCHANGED <<file, dragging, error, certLoading, certReqs>>

\* await res.json() rejects: the body is cut short or is no JSON
UploadJsonRejects(i, message) ==
    /\ uploadReqs[i].stage = "json"
    /\ UploadFails(i, message)

\* resetState without its setFile(null)
ResetState_KeepsFile ==
    /\ result' = NoResult
    /\ error' = NoError
    /\ UNCHANGED <<file, dragging, uploading, certLoading, uploadReqs, certReqs>>

\* resetState: "Upload Another Receipt"
ResetState ==
    /\ file' = NoFile
    /\ result' = NoResult
    /\ error' = NoError
    /\ UNCHANGED <<dragging, uploading, certLoading, uploadReqs, certReqs>>

ClickReset == ResetShown /\ ResetState

(* Certificate download *)

\* err.detail || 'Certificate generation failed'
CertErrorText(detail) ==
    IF detail = "" THEN "Certificate generation failed" ELSE detail

\* handleCertificate up to its first await
HandleCertificate ==
    IF file = NoFile
    THEN UNCHANGED vars
    ELSE /\ certLoading' = TRUE
         /\ certReqs' = Append(certReqs, Request(file, "fetch"))
         /\ UNCHANGED <<file, dragging, uploading, result, error, uploadReqs>>

\* a click on the "Download Score Certificate" button
ClickCertificate ==
    /\ CertButtonShown
    /\ ~CertDisabled
    /\ Len(certReqs) < MaxInFlight
    /\ HandleCertificate

\* catch (err) { setError(err.message) } finally { setCertLoading(false) }
CertFails(i, message) ==
    /\ error' = message
    /\ certLoading' = FALSE
    /\ certReqs' = Remove(certReqs, i)
    /\ UNCHANGED <<file, dragging, uploading, result, uploadReqs>>

CertFetchRejects(i, message) ==
    /\ certReqs[i].stage = "fetch"
    /\ CertFails(i, message)

\* await fetch(...) resolves: if (!res.ok) await res.json() else await res.blob()
CertFetchResolves(i, status) ==
    /\ certReqs[i].stage = "fetch"
    /\ certReqs' = [certReqs EXCEPT ![i].stage = IF status # 200 THEN "errjson" ELSE "blob"]
    /\ UNCHANGED <<ui, uploadReqs>>

\* const err = await res.json(); throw new Error(err.detail || ...)
CertErrJsonResolves(i, detail) ==
    /\ certReqs[i].stage = "errjson"
    /\ CertFails(i, CertErrorText(detail))

\* the error body is no JSON
CertErrJsonRejects(i, message) ==
    /\ certReqs[i].stage = "errjson"
    /\ CertFails(i, message)

\* await res.blob() resolves: the anchor is clicked and removed, the object URL
\* revoked; finally setCertLoading(false)
CertBlobResolves(i) ==
    /\ certReqs[i].stage = "blob"
    /\ certLoading' = FALSE
    /\ certReqs' = Remove(certReqs, i)
    /\ UNCHANGED <<file, dragging, uploading, result, error, uploadReqs>>

CertBlobRejects(i, message) ==
    /\ certReqs[i].stage = "blob"
    /\ CertFails(i, message)

Next ==
    \/ OnDragOver
    \/ OnDragLeave
    \/ \E dropped \in Files \cup {NoFile} : OnDrop(dropped)
    \/ \E chosen \in Files \cup {NoFile} : OnFileChange(chosen)
    \/ ClickUpload
    \/ \E i \in DOMAIN uploadReqs, m \in NetworkErrors : UploadFetchRejects(i, m)
    \/ \E i \in DOMAIN uploadReqs :
          \E status \in UploadStatuses(uploadReqs[i].file) : UploadFetchResolves(i, status)
    \/ \E i \in DOMAIN uploadReqs, rid \in ReceiptIds :
          UploadJsonResolves(i, Pipeline(uploadReqs[i].file.doc, rid))
    \/ \E i \in DOMAIN uploadReqs, m \in BodyErrors : UploadJsonRejects(i, m)
    \/ ClickReset
    \/ ClickCertificate
    \/ \E i \in DOMAIN certReqs, m \in NetworkErrors : CertFetchRejects(i, m)
    \/ \E i \in DOMAIN certReqs :
          \E status \in CertStatuses(certReqs[i].file) : CertFetchResolves(i, status)
    \/ \E i \in DOMAIN certReqs, detail \in CertDetails : CertErrJsonResolves(i, detail)
    \/ \E i \in DOMAIN certReqs, m \in BodyErrors : CertErrJsonRejects(i, m)
    \/ \E i \in DOMAIN certReqs : CertBlobResolves(i)
    \/ \E i \in DOMAIN certReqs, m \in NetworkErrors : CertBlobRejects(i, m)

Spec == Init /\ [][Next]_vars

\* a step of an awaited upload request: the browser settles every promise of
\* fetch() and res.json(), with a response or with an error
UploadSettles ==
    \/ \E i \in DOMAIN uploadReqs, m \in NetworkErrors : UploadFetchRejects(i, m)
    \/ \E i \in DOMAIN uploadReqs :
          \E status \in UploadStatuses(uploadReqs[i].file) : UploadFetchResolves(i, status)
    \/ \E i \in DOMAIN uploadReqs, rid \in ReceiptIds :
          UploadJsonResolves(i, Pipeline(uploadReqs[i].file.doc, rid))
    \/ \E i \in DOMAIN uploadReqs, m \in BodyErrors : UploadJsonRejects(i, m)

LiveSpec == Spec /\ WF_vars(UploadSettles)

-----------------------------------------------------------------------------
(* Properties *)

UploadIssued == Len(uploadReqs') > Len(uploadReqs)
UploadSettled == Len(uploadReqs') < Len(uploadReqs)
CertIssued == Len(certReqs') > Len(certReqs)
CertSettled == Len(certReqs') < Len(certReqs)

\* the score card of a record that was processed but scored low
LowScoreView ==
    /\ ScoreCardShown
    /\ RatingBadge(result) = "Needs Improvement"
    /\ NoticeShown

\* C1: a request to the certificate endpoint is issued only while a result is
\* displayed whose is_approved is true; never while result is null or the
\* displayed record is not approved.
C1_CertificateOnlyWhenApproved ==
    [][CertIssued => (result # NoResult /\ result.is_approved = TRUE)]_vars

C1_Witness ==
    /\ Len(certReqs) = 1
    /\ certReqs[1].stage = "fetch"
    /\ result # NoResult
    /\ result.is_approved

C3_FailedUploadSignalled ==
    (ScoreCardShown /\ result.status = "failed") => (ErrorShown /\ ~LowScoreView)

\* C4: every file submitted to the upload endpoint or to the certificate
\* endpoint has the declared media type application/pdf.
C4_OnlyPdfSubmitted ==
    /\ \A i \in DOMAIN uploadReqs : uploadReqs[i].file.type = PDF
    /\ \A i \in DOMAIN certReqs : certReqs[i].file.type = PDF

\* C5: an upload whose document the extractor cannot read returns the record
\* status failed, score 0, rent limit 0, not approved, 0 pages parsed; and a
\* returned record has status failed only if the extractor could not read it.
C5_FailedOnlyFromExtractor ==
    [][(UploadSettled /\ Len(uploadReqs) = 1 /\ result' # NoResult) =>
        LET doc == uploadReqs[1].file.doc
            unreadable == ~doc.pdf \/ doc.pages = 0
        IN /\ unreadable =>
                /\ result'.status = "failed"
                /\ result'.keycred_score = 0
                /\ result'.max_rent_limit = 0
                /\ result'.is_approved = FALSE
                /\ result'.pages_parsed = 0
           /\ result'.status = "failed" => unreadable
           /\ ~unreadable => result'.pages_parsed = doc.pages]_vars

C5_Witness ==
    /\ result # NoResult
    /\ result.status = "failed"
    /\ file # NoFile
    /\ ~file.doc.pdf

\* C6: at most one upload request is in flight; an upload starts only when a
\* file is selected and uploading is false; with no file selected no request
\* is sent.
C6_OneUploadInFlight ==
    /\ [](Len(uploadReqs) <= 1)
    /\ [][UploadIssued => (file # NoFile /\ ~uploading /\ ~UploadDisabled)]_vars
    /\ [][file = NoFile => ~UploadIssued]_vars

C6_Witness ==
    /\ Len(uploadReqs) = 1
    /\ uploading
    /\ UploadDisabled
    /\ file # NoFile

\* C7: uploading is true exactly while an upload request is outstanding, and
\* whichever way a request settles, uploading is false afterwards; an upload
\* whose request settles does not leave the button at "Processing".
C7_UploadingWhileOutstanding ==
    /\ [](uploading <=> uploadReqs # <<>>)
    /\ [][UploadSettled => (~uploading' /\ UploadLabel' = "Analyze Receipt")]_vars
    /\ [][UploadIssued => uploading']_vars
    /\ uploading ~> ~uploading

C7_Witness ==
    /\ ~uploading
    /\ uploadReqs = <<>>
    /\ error = ServerErrorText(500)
    /\ result = NoResult

\* C8: starting an upload clears result and error; result is null while the
\* request is in flight; a settled request either sets result to the returned
\* record, or leaves result null and sets error to a non-empty message.
C8_UploadOutcome ==
    /\ [][UploadIssued => (result' = NoResult /\ error' = NoError)]_vars
    /\ [](uploadReqs # <<>> => result = NoResult)
    /\ [][(UploadSettled /\ Len(uploadReqs) = 1) =>
            LET req == uploadReqs[1] IN
            \/ /\ req.stage = "json"
               /\ result' \in {Pipeline(req.file.doc, rid) : rid \in ReceiptIds}
               /\ error' = error
            \/ /\ result' = NoResult
               /\ error' # NoError
               /\ error' # ""]_vars

C8_Witness ==
    /\ uploadReqs = <<>>
    /\ result = NoResult
    /\ error = "Unexpected end of JSON input"
    /\ file # NoFile

\* C9: at most one certificate request is in flight; certLoading is true
\* exactly while one is, and false after it settles; a failed request sets
\* error and leaves file and result unchanged.
C9_OneCertificateInFlight ==
    /\ [](Len(certReqs) <= 1)
    /\ [](certLoading <=> certReqs # <<>>)
    /\ [][CertIssued => ~certLoading]_vars
    /\ [][(CertSettled /\ Len(certReqs) = 1) =>
            /\ ~certLoading'
            /\ file' = file
            /\ result' = result
            /\ certReqs[1].stage \in {"fetch", "errjson"} =>
                    (error' # NoError /\ error' # "")
            /\ certReqs[1].stage = "blob" => error' \in {error} \cup NetworkErrors]_vars

C9_Witness ==
    /\ ~certLoading
    /\ certReqs = <<>>
    /\ error = "Certificate generation failed"
    /\ CertButtonShown

\* C10: a rejected drop sets error to 'Please drop a valid PDF file.' and
\* dragging to false and leaves file, result, uploading and certLoading as
\* they are; an accepted drop or browse selection replaces file, clears error
\* and leaves result as it is.
C10_DropAndSelectFrame ==
    [][/\ \A d \in Files \cup {NoFile} :
            OnDrop(d) =>
                IF d = NoFile \/ d.type # PDF
                THEN /\ error' = "Please drop a valid PDF file."
                     /\ dragging' = FALSE
                     /\ UNCHANGED <<file, result, uploading, certLoading>>
                     /\ UploadDisabled' = UploadDisabled
                ELSE /\ file' = d
                     /\ error' = NoError
                     /\ result' = result
       /\ \A c \in Files :
            OnFileChange(c) => (file' = c /\ error' = NoError /\ result' = result)]_vars

C10_Witness ==
    /\ error = "Please drop a valid PDF file."
    /\ file # NoFile
    /\ ~dragging
    /\ ~UploadDisabled

\* a step that takes the displayed result away without starting an upload
ResultDismissed == result # NoResult /\ result' = NoResult /\ ~UploadIssued

\* C11: resetState is available only while a result is displayed, hence never
\* while an upload is in flight; it sets file, result and error to null and
\* leaves uploading and certLoading as they are; afterwards the upload button
\* is disabled until a file is selected.
C11_ResetFrame ==
    /\ [](ResetShown => (uploadReqs = <<>> /\ ~uploading))
    /\ [][(ClickReset \/ ResultDismissed) =>
            /\ ResetShown
            /\ file' = NoFile
            /\ result' = NoResult
            /\ error' = NoError
            /\ UNCHANGED <<uploading, certLoading>>
            /\ UploadDisabled']_vars
    /\ [](file = NoFile => UploadDisabled)
    /\ [][(file = NoFile /\ file' # NoFile) =>
            \E f \in Files : OnDrop(f) \/ OnFileChange(f)]_vars

C11_Witness ==
    /\ file = NoFile
    /\ result = NoResult
    /\ error = NoError
    /\ certLoading
    /\ UploadDisabled

\* C12: whenever a result is displayed and a file is selected, the selected
\* file is the one whose upload returned that result: a result arrives for the
\* file that is selected then, and the selection does not change for as long as
\* that result stays on display.
C12_ResultOfSelectedFile ==
    /\ [][(UploadSettled /\ Len(uploadReqs) = 1 /\ result' # NoResult) =>
            file' = uploadReqs[1].file]_vars
    /\ [][(result # NoResult /\ result' = result /\ file # NoFile) =>
            file' = file]_vars

====
